---------------------------- MODULE Spec2Model ----------------------------
(***************************************************************************)
(* A model of the gtft-crawler pipeline: the worker pool                   *)
(* (internal/worker/pool.go), the fetcher's retry loop (fetcher.Fetch) and *)
(* the shared token-bucket limiter the pool configures.                    *)
(*                                                                         *)
(* The specifications share the module, each moving its own variables:     *)
(*   Spec        the pool: generator, workers, Stop, the reader of the     *)
(*               result channel, the statistics, the cancellation scope.   *)
(*   SpecFetch   one worker iteration around one call of Fetch.            *)
(*   SpecLimiter the token bucket on a discrete clock.                     *)
(*   SpecBackoff the backoff durations a failing Fetch computes.           *)
(*   SpecIds     the identifiers the pool and the parser derive from a URL.*)
(*   SpecStore   SaveBatch: one goroutine per Result, Save under fileLock. *)
(* SpecLive is Spec with the fairness the Go scheduler gives goroutines;   *)
(* SpecDrained adds a reader that keeps receiving and a clock that runs.   *)
(* SpecOrder is the pool with a task queue of several places that is       *)
(* smaller than the URL list; SpecVerbose is the pool in verbose mode,     *)
(* with monitorStats; SpecStoreLive is SpecStore with fair goroutines.     *)
(***************************************************************************)
EXTENDS Integers, Sequences, FiniteSets, Bags

(***************************************************************************)
(* Bounds of the model.                                                    *)
(***************************************************************************)
\* largest number of input URLs of a run
MaxURLs == 2
\* largest value of the -workers option
MaxWorkers == 2
\* capacity of taskQueue in the model (1000 in NewPool)
TaskQueueCap == 1
\* capacity of resultChan in the model (1000 in NewPool)
ResultChanCap == 1
\* largest value of the -retries option
MaxRetries == 3
\* largest value of the -rate option in the limiter specification
MaxRate == 3
\* the limiter specification's clock stops after this many ticks
MaxTicks == 9
\* largest value of the -retries option in the backoff specification
MaxBackoffRetries == 36
\* largest number of pieces of an input URL in the identifier specification
MaxParts == 4
\* largest number of Results SaveBatch receives in the storage specification
MaxBatch == 3
\* capacity of SaveBatch's errors channel, make(chan error, 100), in the
\* storage specification
ErrorsCap == 2
\* largest number of input URLs, and the capacity of the task queue, in the
\* queue-order specification
MaxOrderURLs == 3
OrderQueueCap == 2

VARIABLES
    \* ---- the pool (pool.go) ----
    workers,        \* wp.workers
    total,          \* len(urls) = stats.Total; task i is the Task of the i-th URL
    taskQueue,      \* wp.taskQueue: buffered channel of Task
    queueCap,       \* cap(wp.taskQueue)
    taskQueueClosed,
    resultChan,     \* wp.resultChan: buffered channel of Result
    resultClosed,
    sendOnClosed,   \* a worker sent on the closed resultChan (a Go panic)
    cancelled,      \* wp.ctx is done
    limiterReady,   \* wp.rateLimiter holds at least one token
    genPc, genIdx,  \* generateTasks: position, index of the next URL
    wk,             \* the worker goroutines: a bag of (position, locals) of worker()
    stopPc,         \* position of Stop()
    verbose,        \* wp.verbose
    monPc,          \* position of monitorStats ("idle": it was not started)
    stats,          \* wp.stats
    consumerDone,   \* the reader of the result channel saw it closed
    popped, invoked, sent, received,   \* per-task history counters
    \* ---- one call of Fetch (fetcher) inside one worker iteration ----
    maxRetries,     \* f.maxRetries
    fpc,            \* position: "idle", "wait", "loop", "sleep", "break", "returned"
    attempts,       \* the loop variable of Fetch
    lastError,      \* lastError: "" when nil, else the kind of the last failure
    expired,        \* the deadline of Fetch's ctx has passed
    fres,           \* the FetchResult returned
    permits,        \* permits the worker acquired for this task
    requests,       \* calls of f.client.Do
    made,           \* executions of the loop body
    sleeps,         \* completed backoff sleeps
    permanentAt,    \* the attempt that received a 403 or 404 (0: none)
    requestsAfter,  \* calls of f.client.Do after a 403 or 404 was received
    deadlineAt,     \* where Fetch was when the deadline passed: position, sleeps, made
    got,            \* what each execution of the loop body met, in order
    \* ---- the token bucket on a clock ----
    lrate,          \* the configured rate R (tokens per second)
    lnow,           \* the clock, in ticks of 1/R second
    ltokens,        \* tokens in the bucket
    grants,         \* the ticks at which Wait returned nil, in order
    \* ---- the backoff durations of one failing Fetch ----
    bRetries,       \* f.maxRetries
    bAttempt,       \* the attempt whose backoff was computed last (0: none)
    bDur,           \* the time.Duration backoffDuration returned for it
    \* ---- the identifiers derived from one input URL ----
    url,            \* the URL, a sequence of pieces of text
    taskMade,       \* generateTasks built the Task of the URL
    taskID,         \* Task.ID
    recordMade,     \* Parse built the PaperMetadata of the URL
    recordID,       \* PaperMetadata.ID
    \* ---- SaveBatch (storage.go) ----
    sg,             \* SaveBatch's goroutines: a bag of (position, Result, locals)
    disk,           \* the output directory: file name -> content ("": no file)
    existing,       \* the record IDs whose file was on disk before the run
    fileLocked,     \* s.fileLock is held
    sstats,         \* s.stats
    errors,         \* SaveBatch's errors channel: the number of errors it holds
    sbPc,           \* SaveBatch itself: "wait" in wg.Wait(), then "returned"
    sbErr           \* the number of errors SaveBatch reported (0: it returned nil)

poolVars == <<workers, total, queueCap, taskQueue, taskQueueClosed, resultChan,
              resultClosed, sendOnClosed, cancelled, limiterReady, genPc, genIdx, wk,
              stopPc, verbose, monPc, stats, consumerDone, popped, invoked, sent,
              received>>

fetchVars == <<maxRetries, fpc, attempts, lastError, expired, fres, permits,
               requests, made, sleeps, permanentAt, requestsAfter, deadlineAt, got>>

limVars == <<lrate, lnow, ltokens, grants>>

backVars == <<bRetries, bAttempt, bDur>>

idVars == <<url, taskMade, taskID, recordMade, recordID>>

storeVars == <<sg, disk, existing, fileLocked, sstats, errors, sbPc, sbErr>>

vars == <<poolVars, fetchVars, limVars, backVars, idVars, storeVars>>

Tasks == 1..total
Outcomes == {"value", "error", "panic"}

Min(a, b) == IF a < b THEN a ELSE b

\* a variant whose bucket holds twice the rate
BurstTwice(r) == 2 * r

\* rate.NewLimiter(rate.Limit(rateLimit), rateLimit): the burst is the rate
Burst(r) == r

\* the error of the Result: nil (""), the error processFunc returned, or the
\* error the deferred recover() builds from a panic
ErrorOf(o) == IF o = "value" THEN "" ELSE o

\* the zero value of a worker's locals between two tasks
\* (status is task.Status of the worker's Task, argStatus is
\* result.Task.Status of the copy of the Result that updateStats receives)
IdleLocals(p) == [pc |-> p, task |-> 0, err |-> "", status |-> "", argStatus |-> "",
                  regN |-> 0, regA |-> 0, regC |-> 0]

\* a variant in which Process leaves Total at its zero value
NewStatsNoTotal(n) == [Total |-> 0, Completed |-> 0, Failed |-> 0, Skipped |-> 0,
                       SuccessRate |-> 0, AvgTime |-> 0]

\* Stats{StartTime: time.Now()}, then Process sets Total
NewStats(n) == [Total |-> n, Completed |-> 0, Failed |-> 0, Skipped |-> 0,
                SuccessRate |-> 0, AvgTime |-> 0]

\* float64(Completed) / float64(completed) * 100, kept to 1/100 of a percent
RateOf(c, n) == (c * 10000) \div n

\* Result{Task: task, Data: data, Error: err, Time: duration}: the Task is
\* the worker's, with the status it has there. Durations are measured in units
\* in which an invocation takes one unit.
NewResult(l) == [task |-> l.task, err |-> l.err, time |-> 1,
                 status |-> l.status]

Bump(f, t) == [f EXCEPT ![t] = @ + 1]

\* the worker goroutines are anonymous: worker l takes a step to l2
Replace(l, l2) == (wk (-) SetToBag({l})) (+) SetToBag({l2})

WorkerStates == BagToSet(wk)

\* the number of workers whose position is in S
WorkersAt(S) ==
    BagCardinality([l \in {x \in BagToSet(wk) : x.pc \in S} |-> wk[l]])

\* wg's counter is zero: every worker ran its deferred wg.Done()
AllWorkersDone == \A l \in WorkerStates : l.pc = "done"

(***************************************************************************)
(* The variables of the other specifications, at rest.                     *)
(***************************************************************************)
PoolIdle ==
    /\ workers = 0
    /\ total = 0
    /\ queueCap = 0
    /\ taskQueue = <<>>
    /\ taskQueueClosed = FALSE
    /\ resultChan = <<>>
    /\ resultClosed = FALSE
    /\ sendOnClosed = FALSE
    /\ cancelled = FALSE
    /\ limiterReady = TRUE
    /\ genPc = "idle"
    /\ genIdx = 1
    /\ wk = EmptyBag
    /\ stopPc = "idle"
    /\ verbose = FALSE
    /\ monPc = "idle"
    /\ stats = NewStats(0)
    /\ consumerDone = FALSE
    /\ popped = <<>>
    /\ invoked = <<>>
    /\ sent = <<>>
    /\ received = <<>>

\* the deadline of Fetch's ctx has not passed
NotExpired == [pc |-> "", sleeps |-> 0, made |-> 0]

NoResult == [StatusCode |-> 0, Body |-> FALSE, Error |-> FALSE, Attempts |-> 0]

FetchIdle ==
    /\ maxRetries = 0
    /\ fpc = "idle"
    /\ attempts = 0
    /\ lastError = ""
    /\ expired = FALSE
    /\ fres = NoResult
    /\ permits = 0
    /\ requests = 0
    /\ made = 0
    /\ sleeps = 0
    /\ permanentAt = 0
    /\ requestsAfter = 0
    /\ deadlineAt = NotExpired
    /\ got = <<>>

LimiterIdle ==
    /\ lrate = 0
    /\ lnow = 0
    /\ ltokens = 0
    /\ grants = <<>>

BackoffIdle ==
    /\ bRetries = 0
    /\ bAttempt = 0
    /\ bDur = <<>>

IdsIdle ==
    /\ url = <<>>
    /\ taskMade = FALSE
    /\ taskID = <<>>
    /\ recordMade = FALSE
    /\ recordID = <<>>

StoreIdle ==
    /\ sg = EmptyBag
    /\ disk = <<>>
    /\ existing = {}
    /\ fileLocked = FALSE
    /\ sstats = [Saved |-> 0, Failed |-> 0, Skipped |-> 0]
    /\ errors = 0
    /\ sbPc = "idle"
    /\ sbErr = 0

\* the variables of every specification but the one that moves
AllIdle(moving) ==
    /\ IF moving = "pool" THEN TRUE ELSE PoolIdle
    /\ IF moving = "fetch" THEN TRUE ELSE FetchIdle
    /\ IF moving = "limiter" THEN TRUE ELSE LimiterIdle
    /\ IF moving = "backoff" THEN TRUE ELSE BackoffIdle
    /\ IF moving = "ids" THEN TRUE ELSE IdsIdle
    /\ IF moving = "store" THEN TRUE ELSE StoreIdle

(***************************************************************************)
(* NewPool followed by Process(urls, processFunc): the workers and the     *)
(* generator are started, main then calls Stop.                            *)
(***************************************************************************)
\* a variant whose Process starts one worker too many
InitPoolExtraWorker ==
    /\ workers \in 1..MaxWorkers
    /\ total \in 0..MaxURLs
    /\ queueCap = TaskQueueCap
    /\ taskQueue = <<>>
    /\ taskQueueClosed = FALSE
    /\ resultChan = <<>>
    /\ resultClosed = FALSE
    /\ sendOnClosed = FALSE
    /\ cancelled = FALSE
    /\ limiterReady = TRUE
    /\ genPc = "loop"
    /\ genIdx = 1
    /\ wk = [l \in {IdleLocals("select")} |-> workers + 1]
    /\ stopPc = "waitGen"
    /\ verbose = FALSE
    /\ monPc = "idle"
    /\ stats = NewStats(total)
    /\ consumerDone = FALSE
    /\ popped = [t \in 1..total |-> 0]
    /\ invoked = [t \in 1..total |-> 0]
    /\ sent = [t \in 1..total |-> 0]
    /\ received = [t \in 1..total |-> 0]

InitPool ==
    /\ workers \in 1..MaxWorkers
    /\ total \in 0..MaxURLs
    /\ queueCap = TaskQueueCap
    /\ taskQueue = <<>>
    /\ taskQueueClosed = FALSE
    /\ resultChan = <<>>
    /\ resultClosed = FALSE
    /\ sendOnClosed = FALSE
    /\ cancelled = FALSE
    /\ limiterReady = TRUE
    /\ genPc = "loop"
    /\ genIdx = 1
    /\ wk = [l \in {IdleLocals("select")} |-> workers]
    /\ stopPc = "waitGen"
    /\ verbose = FALSE
    /\ monPc = "idle"
    /\ stats = NewStats(total)
    /\ consumerDone = FALSE
    /\ popped = [t \in 1..total |-> 0]
    /\ invoked = [t \in 1..total |-> 0]
    /\ sent = [t \in 1..total |-> 0]
    /\ received = [t \in 1..total |-> 0]

cfgVars == <<workers, total, queueCap, verbose>>
genVars == <<genPc, genIdx>>
histVars == <<popped, invoked, sent, received>>
notPool == <<fetchVars, limVars, backVars, idVars, storeVars>>

(***************************************************************************)
(* generateTasks: one iteration of the loop is a select between the push   *)
(* and ctx.Done(); the queue is closed after the loop only.                *)
(***************************************************************************)
GenPush ==
    /\ genPc = "loop"
    /\ genIdx <= total
    /\ Len(taskQueue) < queueCap
    /\ taskQueue' = Append(taskQueue, genIdx)
    /\ genIdx' = genIdx + 1
    /\ UNCHANGED <<cfgVars, monPc, taskQueueClosed, resultChan, resultClosed, sendOnClosed,
                   cancelled, limiterReady, genPc, wk, stopPc, stats, consumerDone,
                   histVars, notPool>>

\* a variant whose select has no ctx.Done() case
GenNoCtxDone == FALSE /\ UNCHANGED vars

GenCtxDone ==
    /\ genPc = "loop"
    /\ genIdx <= total
    /\ cancelled
    /\ genPc' = "done"
    /\ UNCHANGED <<cfgVars, monPc, taskQueue, taskQueueClosed, resultChan, resultClosed,
                   sendOnClosed, cancelled, limiterReady, genIdx, wk, stopPc, stats,
                   consumerDone, histVars, notPool>>

\* a variant that may close the queue before the last URL was pushed
GenCloseEarly ==
    /\ genPc = "loop"
    /\ taskQueueClosed' = TRUE
    /\ genPc' = "done"
    /\ UNCHANGED <<cfgVars, monPc, taskQueue, resultChan, resultClosed, sendOnClosed,
                   cancelled, limiterReady, genIdx, wk, stopPc, stats, consumerDone,
                   histVars, notPool>>

GenClose ==
    /\ genPc = "loop"
    /\ genIdx > total
    /\ taskQueueClosed' = TRUE
    /\ genPc' = "done"
    /\ UNCHANGED <<cfgVars, monPc, taskQueue, resultChan, resultClosed, sendOnClosed,
                   cancelled, limiterReady, genIdx, wk, stopPc, stats, consumerDone,
                   histVars, notPool>>

(***************************************************************************)
(* worker: the select on taskQueue and ctx.Done().                         *)
(***************************************************************************)
\* a variant that receives the Task pushed last
WorkerPopLast(l) ==
    /\ l.pc = "select"
    /\ taskQueue # <<>>
    /\ taskQueue' = SubSeq(taskQueue, 1, Len(taskQueue) - 1)
    /\ wk' = Replace(l, [l EXCEPT !.pc = "wait", !.task = taskQueue[Len(taskQueue)],
                                  !.status = "Pending"])
    /\ popped' = Bump(popped, taskQueue[Len(taskQueue)])
    /\ UNCHANGED <<cfgVars, monPc, taskQueueClosed, resultChan, resultClosed, sendOnClosed,
                   cancelled, limiterReady, genVars, stopPc, stats, consumerDone,
                   invoked, sent, received, notPool>>

WorkerPop(l) ==
    /\ l.pc = "select"
    /\ taskQueue # <<>>
    /\ taskQueue' = Tail(taskQueue)
    /\ wk' = Replace(l, [l EXCEPT !.pc = "wait", !.task = Head(taskQueue),
                                  !.status = "Pending"])
    /\ popped' = Bump(popped, Head(taskQueue))
    /\ UNCHANGED <<cfgVars, monPc, taskQueueClosed, resultChan, resultClosed, sendOnClosed,
                   cancelled, limiterReady, genVars, stopPc, stats, consumerDone,
                   invoked, sent, received, notPool>>

\* a variant whose worker does not notice that the queue was closed
WorkerMissesClose(l) == FALSE /\ UNCHANGED vars

WorkerQueueClosed(l) ==
    /\ l.pc = "select"
    /\ taskQueue = <<>>
    /\ taskQueueClosed
    /\ wk' = Replace(l, IdleLocals("done"))
    /\ UNCHANGED <<cfgVars, monPc, taskQueue, taskQueueClosed, resultChan, resultClosed,
                   sendOnClosed, cancelled, limiterReady, genVars, stopPc, stats,
                   consumerDone, histVars, notPool>>

WorkerCtxDone(l) ==
    /\ l.pc = "select"
    /\ cancelled
    /\ wk' = Replace(l, IdleLocals("done"))
    /\ UNCHANGED <<cfgVars, monPc, taskQueue, taskQueueClosed, resultChan, resultClosed,
                   sendOnClosed, cancelled, limiterReady, genVars, stopPc, stats,
                   consumerDone, histVars, notPool>>

(***************************************************************************)
(* rateLimiter.Wait(wp.ctx): nil once a token is taken (the bucket may or  *)
(* may not hold another); the context's error when the context is done,    *)
(* and the worker then returns with the task it popped.                    *)
(***************************************************************************)
WorkerPermit(l) ==
    /\ l.pc = "wait"
    /\ ~cancelled
    /\ limiterReady
    /\ limiterReady' \in BOOLEAN
    /\ wk' = Replace(l, [l EXCEPT !.pc = "work"])
    /\ UNCHANGED <<cfgVars, monPc, taskQueue, taskQueueClosed, resultChan, resultClosed,
                   sendOnClosed, cancelled, genVars, stopPc, stats, consumerDone,
                   histVars, notPool>>

WorkerWaitCancelled(l) ==
    /\ l.pc = "wait"
    /\ cancelled
    /\ wk' = Replace(l, IdleLocals("done"))
    /\ UNCHANGED <<cfgVars, monPc, taskQueue, taskQueueClosed, resultChan, resultClosed,
                   sendOnClosed, cancelled, limiterReady, genVars, stopPc, stats,
                   consumerDone, histVars, notPool>>

\* time passes: the empty bucket gains a token
Refill ==
    /\ genPc # "idle"
    /\ ~limiterReady
    /\ limiterReady' = TRUE
    /\ UNCHANGED <<cfgVars, monPc, taskQueue, taskQueueClosed, resultChan, resultClosed,
                   sendOnClosed, cancelled, genVars, wk, stopPc, stats, consumerDone,
                   histVars, notPool>>

(***************************************************************************)
(* processFunc(task.URL) inside the recover wrapper, then the Result is    *)
(* built: a returned error and a recovered panic both set Result.Error.    *)
(***************************************************************************)
\* a variant that calls processFunc again when it returned an error
WorkerWorkRetry(l) ==
    /\ l.pc = "work"
    /\ \E o \in Outcomes :
          wk' = Replace(l, IF o = "error" /\ invoked[l.task] = 0
                           THEN l
                           ELSE [l EXCEPT !.pc = "us210r", !.err = ErrorOf(o),
                                          !.status = "Processing",
                                          !.argStatus = "Processing"])
    /\ invoked' = Bump(invoked, l.task)
    /\ UNCHANGED <<cfgVars, monPc, taskQueue, taskQueueClosed, resultChan, resultClosed,
                   sendOnClosed, cancelled, limiterReady, genVars, stopPc, stats,
                   consumerDone, popped, sent, received, notPool>>

WorkerWork(l) ==
    /\ l.pc = "work"
    /\ \E o \in Outcomes :
          wk' = Replace(l, [l EXCEPT !.pc = "us210r", !.err = ErrorOf(o),
                                     !.status = "Processing",
                                     !.argStatus = "Processing"])
    /\ invoked' = Bump(invoked, l.task)
    /\ UNCHANGED <<cfgVars, monPc, taskQueue, taskQueueClosed, resultChan, resultClosed,
                   sendOnClosed, cancelled, limiterReady, genVars, stopPc, stats,
                   consumerDone, popped, sent, received, notPool>>

(***************************************************************************)
(* updateStats(result): no lock is taken, so every read and every write of *)
(* wp.stats is a step of its own that other workers' steps may separate.   *)
(***************************************************************************)
statsUnchanged == <<cfgVars, monPc, taskQueue, taskQueueClosed, resultChan, resultClosed,
                    sendOnClosed, cancelled, limiterReady, genVars, stopPc,
                    consumerDone, histVars, notPool>>

\* line 210, the reads of AvgTime, Completed and Failed
UpdateStatsReadAvg(l) ==
    /\ l.pc = "us210r"
    /\ wk' = Replace(l, [l EXCEPT !.pc = "us210w", !.regA = stats.AvgTime,
                                  !.regN = stats.Completed + stats.Failed])
    /\ UNCHANGED <<stats, statsUnchanged>>

\* line 210, the write of AvgTime
UpdateStatsWriteAvg(l) ==
    /\ l.pc = "us210w"
    /\ stats' = [stats EXCEPT !.AvgTime =
                    (l.regA * l.regN + NewResult(l).time) \div (l.regN + 1)]
    /\ wk' = Replace(l, [l EXCEPT !.pc = "usIncR", !.regA = 0, !.regN = 0])
    /\ UNCHANGED statsUnchanged

\* lines 213 and 216, the read of the counter that ++ increments
UpdateStatsReadCount(l) ==
    /\ l.pc = "usIncR"
    /\ wk' = Replace(l, [l EXCEPT !.pc = "usIncW",
                                  !.regC = IF l.err # "" THEN stats.Failed
                                                    ELSE stats.Completed])
    /\ UNCHANGED <<stats, statsUnchanged>>

\* lines 213 and 216, the write of the incremented counter; lines 214 and
\* 217, result.Task.Status of updateStats' own copy of the Result
UpdateStatsWriteCount(l) ==
    /\ l.pc = "usIncW"
    /\ stats' = IF l.err # "" THEN [stats EXCEPT !.Failed = l.regC + 1]
                            ELSE [stats EXCEPT !.Completed = l.regC + 1]
    /\ wk' = Replace(l, [l EXCEPT !.pc = "us220r", !.regC = 0,
                                  !.argStatus = IF l.err # "" THEN "Failed"
                                                               ELSE "Completed"])
    /\ UNCHANGED statsUnchanged

\* lines 220-222, the reads of Completed and Failed
UpdateStatsReadRate(l) ==
    /\ l.pc = "us220r"
    /\ wk' = Replace(l, [l EXCEPT !.pc = "us222w", !.regC = stats.Completed,
                                  !.regN = stats.Completed + stats.Failed])
    /\ UNCHANGED <<stats, statsUnchanged>>

\* line 222, the write of SuccessRate (when completed > 0); updateStats
\* returns and its copy of the Result is gone
UpdateStatsWriteRate(l) ==
    /\ l.pc = "us222w"
    /\ stats' = IF l.regN > 0
                THEN [stats EXCEPT !.SuccessRate = RateOf(l.regC, l.regN)]
                ELSE stats
    /\ wk' = Replace(l, [l EXCEPT !.pc = "send", !.regC = 0, !.regN = 0,
                                  !.argStatus = ""])
    /\ UNCHANGED statsUnchanged

(***************************************************************************)
(* worker: the select between the send on resultChan and ctx.Done().       *)
(***************************************************************************)
\* a variant after processTask: the send gives up when the channel is full
WorkerSendOrDrop(l) ==
    /\ l.pc = "send"
    /\ ~resultClosed
    /\ IF Len(resultChan) < ResultChanCap
       THEN /\ resultChan' = Append(resultChan, NewResult(l))
            /\ sent' = Bump(sent, l.task)
       ELSE UNCHANGED <<resultChan, sent>>
    /\ wk' = Replace(l, IdleLocals("select"))
    /\ UNCHANGED <<cfgVars, monPc, taskQueue, taskQueueClosed, resultClosed, sendOnClosed,
                   cancelled, limiterReady, genVars, stopPc, stats, consumerDone,
                   popped, invoked, received, notPool>>

WorkerSend(l) ==
    /\ l.pc = "send"
    /\ ~resultClosed
    /\ Len(resultChan) < ResultChanCap
    /\ resultChan' = Append(resultChan, NewResult(l))
    /\ sent' = Bump(sent, l.task)
    /\ wk' = Replace(l, IdleLocals("select"))
    /\ UNCHANGED <<cfgVars, monPc, taskQueue, taskQueueClosed, resultClosed, sendOnClosed,
                   cancelled, limiterReady, genVars, stopPc, stats, consumerDone,
                   popped, invoked, received, notPool>>

\* a send on a closed channel panics
WorkerSendOnClosed(l) ==
    /\ l.pc = "send"
    /\ resultClosed
    /\ sendOnClosed' = TRUE
    /\ wk' = Replace(l, IdleLocals("done"))
    /\ UNCHANGED <<cfgVars, monPc, taskQueue, taskQueueClosed, resultChan, resultClosed,
                   cancelled, limiterReady, genVars, stopPc, stats, consumerDone,
                   histVars, notPool>>

WorkerSendCancelled(l) ==
    /\ l.pc = "send"
    /\ cancelled
    /\ wk' = Replace(l, IdleLocals("done"))
    /\ UNCHANGED <<cfgVars, monPc, taskQueue, taskQueueClosed, resultChan, resultClosed,
                   sendOnClosed, cancelled, limiterReady, genVars, stopPc, stats,
                   consumerDone, histVars, notPool>>

(***************************************************************************)
(* Stop: taskGenWg.Wait(), wg.Wait(), close(resultChan).                   *)
(***************************************************************************)
stopUnchanged == <<cfgVars, monPc, taskQueue, taskQueueClosed, resultChan, sendOnClosed,
                   cancelled, limiterReady, genVars, wk, stats, consumerDone,
                   histVars, notPool>>

StopGenWait ==
    /\ stopPc = "waitGen"
    /\ genPc = "done"
    /\ stopPc' = "waitWorkers"
    /\ UNCHANGED <<resultClosed, stopUnchanged>>

\* a variant without wg.Wait()
StopWorkersNoWait ==
    /\ stopPc = "waitWorkers"
    /\ stopPc' = "close"
    /\ UNCHANGED <<resultClosed, stopUnchanged>>

StopWorkersWait ==
    /\ stopPc = "waitWorkers"
    /\ AllWorkersDone
    /\ stopPc' = "close"
    /\ UNCHANGED <<resultClosed, stopUnchanged>>

StopClose ==
    /\ stopPc = "close"
    /\ resultClosed' = TRUE
    /\ stopPc' = "returned"
    /\ UNCHANGED stopUnchanged

(***************************************************************************)
(* The reader of the channel Process returned (SaveBatch's range loop).    *)
(***************************************************************************)
Consume ==
    /\ resultChan # <<>>
    /\ resultChan' = Tail(resultChan)
    /\ received' = Bump(received, Head(resultChan).task)
    /\ UNCHANGED <<cfgVars, monPc, taskQueue, taskQueueClosed, resultClosed, sendOnClosed,
                   cancelled, limiterReady, genVars, wk, stopPc, stats, consumerDone,
                   popped, invoked, sent, notPool>>

ConsumeClosed ==
    /\ resultChan = <<>>
    /\ resultClosed
    /\ ~consumerDone
    /\ consumerDone' = TRUE
    /\ UNCHANGED <<cfgVars, monPc, taskQueue, taskQueueClosed, resultChan, resultClosed,
                   sendOnClosed, cancelled, limiterReady, genVars, wk, stopPc, stats,
                   histVars, notPool>>

\* wp.cancel(): the cancellation scope of the run is triggered
Cancel ==
    /\ genPc # "idle"
    /\ ~cancelled
    /\ cancelled' = TRUE
    /\ UNCHANGED <<cfgVars, monPc, taskQueue, taskQueueClosed, resultChan, resultClosed,
                   sendOnClosed, limiterReady, genVars, wk, stopPc, stats,
                   consumerDone, histVars, notPool>>

(***************************************************************************)
(* monitorStats, started by Process in verbose mode only: a select between *)
(* the ticker and ctx.Done(). It reads wp.stats and writes nothing.        *)
(***************************************************************************)
monUnchanged == <<cfgVars, taskQueue, taskQueueClosed, resultChan, resultClosed,
                  sendOnClosed, cancelled, limiterReady, genVars, wk, stopPc, stats,
                  consumerDone, histVars, notPool>>

\* case <-ticker.C
MonitorTick ==
    /\ monPc = "select"
    /\ monPc' = "print"
    /\ UNCHANGED monUnchanged

\* wp.printStats() returns
MonitorPrint ==
    /\ monPc = "print"
    /\ monPc' = "select"
    /\ UNCHANGED monUnchanged

\* case <-wp.ctx.Done(): return
MonitorCtxDone ==
    /\ monPc = "select"
    /\ cancelled
    /\ monPc' = "done"
    /\ UNCHANGED monUnchanged

Monitor == MonitorTick \/ MonitorPrint \/ MonitorCtxDone

Generator == GenPush \/ GenCtxDone \/ GenClose

UpdateStats(l) ==
    \/ UpdateStatsReadAvg(l) \/ UpdateStatsWriteAvg(l)
    \/ UpdateStatsReadCount(l) \/ UpdateStatsWriteCount(l)
    \/ UpdateStatsReadRate(l) \/ UpdateStatsWriteRate(l)

Worker(l) ==
    \/ WorkerPop(l) \/ WorkerQueueClosed(l) \/ WorkerCtxDone(l)
    \/ WorkerPermit(l) \/ WorkerWaitCancelled(l)
    \/ WorkerWork(l)
    \/ UpdateStats(l)
    \/ WorkerSend(l) \/ WorkerSendOnClosed(l) \/ WorkerSendCancelled(l)

WorkerStep == \E l \in WorkerStates : Worker(l)

Stop == StopGenWait \/ StopWorkersWait \/ StopClose

Consumer == Consume \/ ConsumeClosed

Init == InitPool /\ AllIdle("pool")

Next ==
    \/ Generator
    \/ WorkerStep
    \/ Stop
    \/ Consumer
    \/ Refill
    \/ Cancel

Spec == Init /\ [][Next]_vars

\* a step of a goroutine of the pool or of Stop's caller
PoolStep == Generator \/ WorkerStep \/ Stop

\* The scheduler runs a goroutine that can take a step: while some step of the
\* pool is possible, one is eventually taken (a work invocation in progress
\* returns). The reader of the result channel and the clock may stop.
SpecLive == Init /\ [][Next]_vars /\ WF_vars(PoolStep)

\* The run C23 is about: the scheduler runs the goroutines of the pool, the
\* reader of the result channel keeps receiving (SaveBatch's range loop only
\* starts a goroutine per Result), and time passes, so the limiter's bucket
\* is refilled.
SpecDrained ==
    Init /\ [][Next]_vars /\ WF_vars(PoolStep) /\ WF_vars(Consumer) /\ WF_vars(Refill)

\* NewPool and Process for a task queue that can hold several Tasks and is
\* smaller than the URL list
InitOrderPool ==
    /\ workers \in 1..MaxWorkers
    /\ total \in 1..MaxOrderURLs
    /\ queueCap = OrderQueueCap
    /\ taskQueue = <<>>
    /\ taskQueueClosed = FALSE
    /\ resultChan = <<>>
    /\ resultClosed = FALSE
    /\ sendOnClosed = FALSE
    /\ cancelled = FALSE
    /\ limiterReady = TRUE
    /\ genPc = "loop"
    /\ genIdx = 1
    /\ wk = [l \in {IdleLocals("select")} |-> workers]
    /\ stopPc = "waitGen"
    /\ verbose = FALSE
    /\ monPc = "idle"
    /\ stats = NewStats(total)
    /\ consumerDone = FALSE
    /\ popped = [t \in 1..total |-> 0]
    /\ invoked = [t \in 1..total |-> 0]
    /\ sent = [t \in 1..total |-> 0]
    /\ received = [t \in 1..total |-> 0]

InitOrder == InitOrderPool /\ AllIdle("pool")

\* NewPool and Process in verbose mode: Process also starts monitorStats
InitVerbosePool ==
    /\ workers \in 1..MaxWorkers
    /\ total \in 0..MaxURLs
    /\ queueCap = TaskQueueCap
    /\ taskQueue = <<>>
    /\ taskQueueClosed = FALSE
    /\ resultChan = <<>>
    /\ resultClosed = FALSE
    /\ sendOnClosed = FALSE
    /\ cancelled = FALSE
    /\ limiterReady = TRUE
    /\ genPc = "loop"
    /\ genIdx = 1
    /\ wk = [l \in {IdleLocals("select")} |-> workers]
    /\ stopPc = "waitGen"
    /\ verbose = TRUE
    /\ monPc = "select"
    /\ stats = NewStats(total)
    /\ consumerDone = FALSE
    /\ popped = [t \in 1..total |-> 0]
    /\ invoked = [t \in 1..total |-> 0]
    /\ sent = [t \in 1..total |-> 0]
    /\ received = [t \in 1..total |-> 0]

InitVerbose == InitVerbosePool /\ AllIdle("pool")

\* a step of a run in verbose mode
NextVerbose == Next \/ Monitor

\* The pool in verbose mode. The monitor only reads, so the specifications of
\* the pool above are those of both modes without the monitor's steps.
SpecVerbose == InitVerbose /\ [][NextVerbose]_vars

SpecOrder == InitOrder /\ [][Next]_vars

(***************************************************************************)
(* Properties of the pool.                                                 *)
(***************************************************************************)
\* the number of workers that hold task t
Holders(t) ==
    BagCardinality([l \in {x \in BagToSet(wk) : x.task = t} |-> wk[l]])

\* the number of times task t is in the task queue
Queued(t) == Cardinality({i \in 1..Len(taskQueue) : taskQueue[i] = t})

\* the tasks generateTasks has pushed
Pushed == 1..(genIdx - 1)

StatsPcs == {"us210r", "us210w", "usIncR", "usIncW", "us220r", "us222w"}

\* C1: while the cancellation scope is not triggered, every Task pushed on
\* the task queue is in the queue, held by one worker, or has its single
\* Result on the result channel's record (never none of these, never two), and
\* when every worker has returned each pushed Task has exactly one Result.
C1_ExactlyOneResult ==
    ~cancelled =>
        /\ \A t \in Tasks : sent[t] <= 1
        /\ \A t \in Tasks : sent[t] = 1 => t \in Pushed
        /\ \A t \in Pushed : Queued(t) + Holders(t) + sent[t] = 1
        /\ AllWorkersDone => \A t \in Tasks : sent[t] = 1

\* C1 witness: an uncancelled run of MaxURLs tasks ended, a task having
\* failed, with one Result per Task received.
C1_Witness ==
    /\ ~cancelled
    /\ stopPc = "returned"
    /\ total = MaxURLs
    /\ stats.Failed > 0
    /\ \A t \in Tasks : sent[t] = 1 /\ received[t] = 1

\* C2: Stop passes the generator's wait, then the workers' wait, then closes
\* the result channel; no worker sends on the closed channel, and a reader
\* that saw the channel closed has received every Result sent on it (every
\* Result built, when the run was not cancelled).
C2_CloseAfterAll ==
    /\ stopPc = "waitWorkers" => genPc = "done"
    /\ stopPc \in {"close", "returned"} => genPc = "done" /\ AllWorkersDone
    /\ resultClosed => stopPc = "returned"
    /\ ~sendOnClosed
    /\ consumerDone =>
          \A t \in Tasks : /\ received[t] = sent[t]
                           /\ ~cancelled => received[t] = invoked[t]

\* C2 witness: the reader saw the channel closed after MaxURLs Results.
C2_Witness ==
    /\ consumerDone
    /\ workers = MaxWorkers
    /\ total = MaxURLs
    /\ \A t \in Tasks : received[t] = 1

\* C3: a Task is popped by at most one worker, held by at most one worker,
\* never in the queue again once popped, and the work function is invoked at
\* most once for it, whatever it returned.
C3_AtMostOnce ==
    \A t \in Tasks :
        /\ popped[t] <= 1
        /\ invoked[t] <= 1
        /\ Queued(t) + Holders(t) <= 1
        /\ Queued(t) = 1 => popped[t] = 0
        /\ Holders(t) = 1 => popped[t] = 1

\* C3 witness: two workers, every Task invoked once, and a failed Result on
\* the result channel while no Task is in the queue or in a worker's hands.
C3_Witness ==
    /\ workers = MaxWorkers
    /\ total = MaxURLs
    /\ \A t \in Tasks : invoked[t] = 1 /\ Queued(t) + Holders(t) = 0
    /\ resultChan # <<>>
    /\ Head(resultChan).err # ""

\* C4 (as claimed): once Stop has returned, Completed + Failed + Skipped is
\* Total; stated for the runs that were not cancelled.
C4_StatsSumToTotal ==
    (stopPc = "returned" /\ ~cancelled) =>
        stats.Completed + stats.Failed + stats.Skipped = stats.Total

\* C5 (as claimed): the reads and writes updateStats makes for one Result are
\* a critical section: at most one worker is inside updateStats.
C5_StatsCriticalSection == WorkersAt(StatsPcs) <= 1

\* C10: once the cancellation scope is triggered, the generator, every
\* worker and Stop eventually return.
C10_CancelledReturns ==
    cancelled ~> (genPc = "done" /\ AllWorkersDone /\ stopPc = "returned")

\* C10 witness: the generator was stopped by the cancellation while the task
\* queue was full, and Stop returned.
C10_Witness ==
    /\ cancelled
    /\ genPc = "done"
    /\ genIdx <= total
    /\ Len(taskQueue) = TaskQueueCap
    /\ AllWorkersDone
    /\ stopPc = "returned"

\* C11 (as claimed): when a cancelled run has finished, every Task a worker
\* popped has its Result delivered on the result channel, every Task counted
\* in Completed or Failed (its work function was invoked, so updateStats ran
\* for it) has its Result delivered, and Completed + Failed + Skipped is
\* Total.
C11_CancelledAccounted ==
    (cancelled /\ stopPc = "returned") =>
        /\ \A t \in Tasks : popped[t] = 1 => sent[t] = 1
        /\ \A t \in Tasks : invoked[t] = 1 => sent[t] = 1
        /\ stats.Completed + stats.Failed + stats.Skipped = stats.Total

\* the positions of worker() at which updateStats has already run
\* Failed++ or Completed++ for the Result the worker holds
CountedPcs == {"us220r", "us222w", "send"}

\* the Results built from a recovered panic that passed Failed++ and are
\* still in a worker's hands or on the result channel
PanicsCounted ==
    BagCardinality([l \in {x \in BagToSet(wk) :
                              x.err = "panic" /\ x.pc \in CountedPcs} |-> wk[l]])
        + Cardinality({i \in 1..Len(resultChan) : resultChan[i].err = "panic"})

\* while the run is not cancelled, a worker returns only because the task
\* queue is closed and empty (a panic of the work function ends no worker),
\* and once every worker has returned every Task has its Result delivered,
\* the panicking ones included
PanicIsolated ==
    ~cancelled =>
        /\ WorkersAt({"done"}) > 0 => taskQueueClosed /\ taskQueue = <<>>
        /\ AllWorkersDone => \A t \in Tasks : sent[t] = 1

\* C14 (as claimed): a panic of the work function becomes a Result whose
\* Error is set, the worker stays alive and the Result is delivered, and
\* every such Result is counted in Failed: Failed is at least the number of
\* panic Results that have passed Failed++ and are not consumed yet.
C14_PanicCountedFailed ==
    /\ PanicIsolated
    /\ \A l \in WorkerStates : l.err = "panic" => NewResult(l).err # ""
    /\ stats.Failed >= PanicsCounted

\* The queue is closed only by the generator as its last step, after the
\* push of the last URL; a generator that returned before that was stopped
\* by the cancellation and left the queue open.
ClosedAfterLastPush ==
    /\ taskQueueClosed => genPc = "done" /\ genIdx = total + 1
    /\ (genPc = "done" /\ genIdx <= total) => cancelled /\ ~taskQueueClosed
    /\ genPc = "done" => taskQueueClosed \/ genIdx <= total

\* A step closes the queue only if it was open and the generator was in its
\* loop; the closed queue stays closed and receives no push; and a step in
\* which a worker leaves its select for good puts nothing on the result
\* channel.
CloseStep ==
    /\ (taskQueueClosed' /\ ~taskQueueClosed) => genPc = "loop" /\ genPc' = "done"
    /\ taskQueueClosed =>
          /\ taskQueueClosed'
          /\ genIdx' = genIdx
          /\ Len(taskQueue') <= Len(taskQueue)
    /\ WorkersAt({"select"})' < WorkersAt({"select"}) /\ WorkersAt({"done"})' > WorkersAt({"done"}) =>
          resultChan' = resultChan /\ sent' = sent

\* C22: the generator closes the task queue once, after the last push and
\* only when it was not stopped by the cancellation; nothing is pushed after
\* the close; a worker that finds the queue closed and empty exits without a
\* Result.
C22_CloseOnceAfterLast == []ClosedAfterLastPush /\ [][CloseStep]_vars

\* C22 witness: an uncancelled run of MaxURLs tasks whose generator closed the
\* queue and whose workers all found it closed and empty.
C22_Witness ==
    /\ ~cancelled
    /\ taskQueueClosed
    /\ total = MaxURLs
    /\ workers = MaxWorkers
    /\ AllWorkersDone
    /\ stopPc = "waitWorkers"

\* the generator closed the queue, every worker returned, Stop closed the
\* result channel and returned
Terminated ==
    /\ taskQueueClosed
    /\ AllWorkersDone
    /\ resultClosed
    /\ stopPc = "returned"

\* C23: a run that is never cancelled, whose work invocations return and
\* whose result channel is drained, terminates, whatever the invocations
\* return.
C23_RunTerminates == ([]~cancelled) => <>Terminated

\* C23 witness: an uncancelled run of MaxURLs tasks that all failed has
\* terminated and its reader saw the result channel closed.
C23_Witness ==
    /\ ~cancelled
    /\ Terminated
    /\ consumerDone
    /\ total = MaxURLs
    /\ stats.Completed = 0
    /\ \A t \in Tasks : invoked[t] = 1 /\ received[t] = 1

\* the Tasks whose work function was invoked: updateStats runs once for each
InvokedTasks == Cardinality({t \in Tasks : invoked[t] = 1})

\* C24: in every state Completed + Failed is at most Total; it is at most
\* the number of Tasks whose work function was invoked.
C24_CountedAtMostTotal ==
    /\ stats.Completed + stats.Failed <= InvokedTasks
    /\ stats.Completed + stats.Failed <= stats.Total

\* C24 witness: two workers have counted MaxURLs Results, one Completed and
\* one Failed, and Completed + Failed has reached Total.
C24_Witness ==
    /\ workers = MaxWorkers
    /\ total = MaxURLs
    /\ stats.Completed > 0
    /\ stats.Failed > 0
    /\ stats.Completed + stats.Failed = stats.Total

\* C25 (as claimed): printStats runs in the monitor's goroutine and reads
\* wp.stats without synchronisation, so it can observe every state; in each,
\* when Completed + Failed is not 0, SuccessRate is
\* Completed / (Completed + Failed) x 100 for the counters of that state.
C25_SuccessRateCurrent ==
    stats.Completed + stats.Failed > 0 =>
        stats.SuccessRate =
            RateOf(stats.Completed, stats.Completed + stats.Failed)

\* C29 (as claimed): a Task in a worker's hands is Pending until the work
\* function is called and Processing from then on, and the Task of every
\* Result on the result channel carries its final status: Completed when
\* Error is nil, Failed when it is set.
C29_FinalStatusDelivered ==
    /\ \A l \in WorkerStates :
          /\ l.pc = "wait" => l.status = "Pending"
          /\ l.pc \in StatsPcs \cup {"send"} => l.status = "Processing"
    /\ \A i \in 1..Len(resultChan) :
          resultChan[i].status = IF resultChan[i].err = "" THEN "Completed"
                                                            ELSE "Failed"

\* the Tasks a worker popped whose Result is not on the result channel's
\* record yet
InFlight == {t \in Tasks : popped[t] = 1 /\ sent[t] = 0}

\* C30: there are exactly `workers` worker goroutines and one generator
\* (no Task is pushed twice), so at most `workers` invocations of the work
\* function are in progress and at most `workers` Tasks are popped without
\* their Result pushed.
C30_AtMostWorkersInFlight ==
    /\ WorkersAt({"work"}) <= workers
    /\ Cardinality(InFlight) <= workers
    /\ \A t \in Tasks : Queued(t) + popped[t] <= 1
    /\ BagCardinality(wk) = workers

\* C30 witness: more Tasks than workers, the single worker is inside the
\* work function for the first Task while the second waits in the queue.
C30_Witness ==
    /\ workers = 1
    /\ total = MaxURLs
    /\ WorkersAt({"work"}) = 1
    /\ Cardinality(InFlight) = 1
    /\ Len(taskQueue) = TaskQueueCap

(***************************************************************************)
(* One worker iteration around Fetch: the worker holds a task, acquires    *)
(* its permit (pool.go, rateLimiter.Wait), and the work function calls     *)
(* Fetch, whose loop runs attempts = 1 .. maxRetries.                      *)
(***************************************************************************)
Statuses == {200, 399, 400, 403, 404, 500}

\* what one execution of the loop body meets: http.NewRequestWithContext
\* fails, client.Do fails, io.ReadAll fails, or a response is read
Outcome(k, c) == [kind |-> k, code |-> c]

AttemptOutcomes ==
    {Outcome(k, 0) : k \in {"createErr", "transportErr", "readErr"}}
        \cup {Outcome("response", c) : c \in Statuses}

\* the -retries option is not validated by ParseFlags
RetryOptions == -1..MaxRetries

FetchResult(code, body, err, n) ==
    [StatusCode |-> code, Body |-> body, Error |-> err, Attempts |-> n]

InitFetcher ==
    /\ maxRetries \in RetryOptions
    /\ fpc = "wait"
    /\ attempts = 0
    /\ lastError = ""
    /\ expired = FALSE
    /\ fres = NoResult
    /\ permits = 0
    /\ requests = 0
    /\ made = 0
    /\ sleeps = 0
    /\ permanentAt = 0
    /\ requestsAfter = 0
    /\ deadlineAt = NotExpired
    /\ got = <<>>

notFetch == <<poolVars, limVars, backVars, idVars, storeVars>>

\* rateLimiter.Wait returns nil; processFunc calls Fetch, which sets
\* attempts = 1
FetchWorkerPermit ==
    /\ fpc = "wait"
    /\ permits' = permits + 1
    /\ attempts' = 1
    /\ fpc' = "loop"
    /\ UNCHANGED <<maxRetries, lastError, expired, fres, requests, made, sleeps,
                   permanentAt, requestsAfter, deadlineAt, got, notFetch>>

\* a variant that retries every status >= 400
NoRetryNever(code) == FALSE

\* resp.StatusCode == 404 || resp.StatusCode == 403: break
NoRetry(code) == code = 404 \/ code = 403

\* a variant that takes only the 5xx statuses as errors
HTTPErrorAbove499(code) == code > 499

\* resp.StatusCode >= 400
HTTPError(code) == code >= 400

\* the outcomes the loop body can meet: once the deadline of ctx has passed
\* client.Do fails
Possible ==
    IF expired THEN {Outcome("createErr", 0), Outcome("transportErr", 0)}
               ELSE AttemptOutcomes

\* one execution of the loop body, attempts <= maxRetries
FetchAttempt ==
    /\ fpc = "loop"
    /\ attempts <= maxRetries
    /\ made' = made + 1
    /\ \E o \in Possible :
        /\ requests' = IF o.kind = "createErr" THEN requests ELSE requests + 1
        /\ requestsAfter' = IF o.kind # "createErr" /\ permanentAt # 0
                            THEN requestsAfter + 1 ELSE requestsAfter
        /\ permanentAt' = IF o.code \in {403, 404} /\ permanentAt = 0
                          THEN attempts ELSE permanentAt
        /\ got' = Append(got, o)
        /\ IF o.kind = "response" /\ ~HTTPError(o.code)
           THEN /\ fres' = FetchResult(o.code, TRUE, FALSE, attempts)
                /\ fpc' = "returned"
                /\ UNCHANGED lastError
           ELSE /\ lastError' = o.kind
                /\ fpc' = IF o.kind = "response" /\ NoRetry(o.code)
                          THEN "break" ELSE "sleep"
                /\ UNCHANGED fres
    /\ UNCHANGED <<maxRetries, attempts, expired, permits, sleeps, deadlineAt, notFetch>>

\* time.Sleep(f.backoffDuration(attempts)) returns; continue runs attempts++
FetchSleepDone ==
    /\ fpc = "sleep"
    /\ sleeps' = sleeps + 1
    /\ attempts' = attempts + 1
    /\ fpc' = "loop"
    /\ UNCHANGED <<maxRetries, lastError, expired, fres, permits, requests, made,
                   permanentAt, requestsAfter, deadlineAt, got, notFetch>>

\* after the loop (its condition failed, or break): the error result, with
\* Attempts: attempts - 1
FetchFail ==
    /\ \/ fpc = "loop" /\ attempts > maxRetries
       \/ fpc = "break"
    /\ fres' = FetchResult(0, FALSE, TRUE, attempts - 1)
    /\ fpc' = "returned"
    /\ UNCHANGED <<maxRetries, attempts, lastError, expired, permits, requests,
                   made, sleeps, permanentAt, requestsAfter, deadlineAt, got, notFetch>>

\* the deadline of context.WithTimeout(context.Background(), f.timeout) passes
FetchExpire ==
    /\ fpc \in {"loop", "sleep"}
    /\ ~expired
    /\ expired' = TRUE
    /\ deadlineAt' = [pc |-> fpc, sleeps |-> sleeps, made |-> made]
    /\ UNCHANGED <<maxRetries, fpc, attempts, lastError, fres, permits, requests,
                   made, sleeps, permanentAt, requestsAfter, got, notFetch>>

NextFetch ==
    \/ FetchWorkerPermit
    \/ FetchAttempt
    \/ FetchSleepDone
    \/ FetchFail
    \/ FetchExpire

InitFetch == InitFetcher /\ AllIdle("fetch")

SpecFetch == InitFetch /\ [][NextFetch]_vars

(***************************************************************************)
(* Properties of Fetch.                                                    *)
(***************************************************************************)
\* C6: Fetch calls client.Do at most maxRetries times, and after an attempt
\* that received a 403 or 404 it makes no further attempt and no further call.
C6_BoundedRequests ==
    /\ maxRetries >= 0 => requests <= maxRetries /\ made <= maxRetries
    /\ requests <= made
    /\ requestsAfter = 0
    /\ permanentAt # 0 => made = permanentAt

\* C6 witness: with maxRetries at its largest, the second attempt received
\* a 403 or 404 and Fetch returned after two requests.
C6_Witness ==
    /\ fpc = "returned"
    /\ maxRetries = MaxRetries
    /\ permanentAt = 2
    /\ requests = 2

\* C7 (as claimed): the Attempts field of the returned FetchResult is the
\* number of attempts made.
C7_AttemptsRecorded == fpc = "returned" => fres.Attempts = made

\* C9 (as claimed): every call of client.Do has a permit of its own, so the
\* requests issued never exceed the permits granted.
C9_PermitPerRequest == requests <= permits

\* C13 (as claimed): when the deadline of Fetch's ctx passes while Fetch is
\* in a backoff sleep, that sleep is not completed and no further attempt is
\* started: Fetch returns.
C13_SleepAborted ==
    deadlineAt.pc = "sleep" =>
        /\ sleeps = deadlineAt.sleeps
        /\ made = deadlineAt.made

\* the attempt received a response with a status below 400 and read its body
Good(o) == o.kind = "response" /\ o.code < 400

\* the attempt received a 403 or 404
Permanent(o) == o.kind = "response" /\ (o.code = 403 \/ o.code = 404)

\* C27: Fetch returns success exactly when an attempt j <= maxRetries met a
\* good response with no 403 or 404 before it; j is then the last attempt
\* made, Fetch returned in it with its status and body and a nil Error, and
\* only the j - 1 sleeps between the attempts were slept.
C27_SuccessAtFirstGood ==
    /\ \A j \in 1..Len(got) :
          Good(got[j]) =>
              /\ j = Len(got)
              /\ j <= maxRetries
              /\ \A i \in 1..(j - 1) : ~Permanent(got[i])
              /\ fpc = "returned"
              /\ fres = FetchResult(got[j].code, TRUE, FALSE, j)
              /\ sleeps = j - 1
              /\ requests <= j
    /\ (fpc = "returned" /\ ~fres.Error) =>
          /\ got # <<>>
          /\ Good(got[Len(got)])
          /\ fres.StatusCode < 400
          /\ fres.Body

\* C27 witness: the third attempt met a good response after two failures
\* and two sleeps, and Fetch returned it.
C27_Witness ==
    /\ fpc = "returned"
    /\ ~fres.Error
    /\ fres.StatusCode = 200
    /\ Len(got) = MaxRetries
    /\ got[1].kind = "transportErr"
    /\ got[2] = Outcome("response", 500)
    /\ sleeps = MaxRetries - 1

\* C28 (as claimed): a Fetch call that has made a attempts has slept at most
\* a - 1 backoff sleeps, and none after the attempt numbered maxRetries.
C28_SleepsBetweenAttempts ==
    /\ sleeps <= IF made = 0 THEN 0 ELSE made - 1
    /\ ~(made = maxRetries /\ fpc = "sleep")

\* C35 (as claimed): whatever the retry count, a Fetch that has returned
\* has made an attempt, and has called client.Do unless no attempt could
\* build its request.
C35_AttemptedBeforeFailure ==
    fpc = "returned" =>
        /\ made >= 1
        /\ requests >= 1 \/ \A j \in 1..Len(got) : got[j].kind = "createErr"

(***************************************************************************)
(* The token bucket NewPool configures, rate R tokens per second and burst *)
(* Burst(R), on a clock whose tick is 1/R second: a tick refills one       *)
(* token. A grant is a return of rateLimiter.Wait with a nil error in any  *)
(* worker; any number of workers may be waiting.                           *)
(***************************************************************************)
InitBucket ==
    /\ lrate \in 1..MaxRate
    /\ lnow = 0
    /\ ltokens = Burst(lrate)
    /\ grants = <<>>

notLimiter == <<poolVars, fetchVars, backVars, idVars, storeVars>>

LimiterGrant ==
    /\ lrate > 0
    /\ ltokens >= 1
    /\ ltokens' = ltokens - 1
    /\ grants' = Append(grants, lnow)
    /\ UNCHANGED <<lrate, lnow, notLimiter>>

\* a variant whose bucket has no capacity: idle time is saved up
LimiterTickNoCap ==
    /\ lrate > 0
    /\ lnow < MaxTicks
    /\ lnow' = lnow + 1
    /\ ltokens' = ltokens + 1
    /\ UNCHANGED <<lrate, grants, notLimiter>>

LimiterTick ==
    /\ lrate > 0
    /\ lnow < MaxTicks
    /\ lnow' = lnow + 1
    /\ ltokens' = Min(Burst(lrate), ltokens + 1)
    /\ UNCHANGED <<lrate, grants, notLimiter>>

NextLimiter == LimiterGrant \/ LimiterTick

InitLimiter == InitBucket /\ AllIdle("limiter")

SpecLimiter == InitLimiter /\ [][NextLimiter]_vars

(***************************************************************************)
(* Properties of the limiter.                                              *)
(***************************************************************************)
\* the permits granted at the ticks a, a+1, .., b-1
GrantsIn(a, b) ==
    Cardinality({i \in 1..Len(grants) : a <= grants[i] /\ grants[i] < b})

\* the windows of one second (lrate ticks) that have begun
WindowStarts == 0..lnow

C26_PermitsOneSecondApart ==
    lrate = 1 =>
        \A k \in 1..Len(grants) : grants[k] >= grants[1] + (k - 1)

\* C26 witness: at 1 permit per second, MaxTicks + 1 permits were granted as
\* fast as the limiter allows: the last one MaxTicks seconds after the first.
C26_Witness ==
    /\ lrate = 1
    /\ Len(grants) = MaxTicks + 1
    /\ grants[Len(grants)] = grants[1] + MaxTicks

(***************************************************************************)
(* backoffDuration(attempt): time.Duration is a 64-bit signed integer that *)
(* counts nanoseconds. A value is kept as its eight bytes, least           *)
(* significant first, in two's complement; the arithmetic wraps as Go's    *)
(* does.                                                                   *)
(***************************************************************************)
\* the bytes of an int64
Int64Bytes == 8

\* the values of a byte
ByteBase == 256

\* the first cnt bytes of the natural number n, least significant first
RECURSIVE NatBytes(_, _)
NatBytes(n, cnt) ==
    IF cnt = 0 THEN <<>> ELSE <<n % ByteBase>> \o NatBytes(n \div ByteBase, cnt - 1)

\* the conversion of a small non-negative constant to int64
ToInt64(n) == NatBytes(n, Int64Bytes)

\* a + b in int64, from byte i on with the carry c
RECURSIVE AddFrom(_, _, _, _)
AddFrom(a, b, i, c) ==
    IF i > Int64Bytes THEN <<>>
    ELSE <<(a[i] + b[i] + c) % ByteBase>>
             \o AddFrom(a, b, i + 1, (a[i] + b[i] + c) \div ByteBase)

Add64(a, b) == AddFrom(a, b, 1, 0)

\* x << n in int64: a shift count of 64 or more gives 0
RECURSIVE Shl64(_, _)
Shl64(x, n) ==
    IF n >= 8 * Int64Bytes THEN ToInt64(0)
    ELSE IF n = 0 THEN x
    ELSE Shl64(Add64(x, x), n - 1)

\* b times the byte d, from byte i on with the carry c
RECURSIVE MulByteFrom(_, _, _, _)
MulByteFrom(b, d, i, c) ==
    IF i > Int64Bytes THEN <<>>
    ELSE <<(b[i] * d + c) % ByteBase>>
             \o MulByteFrom(b, d, i + 1, (b[i] * d + c) \div ByteBase)

\* x moved up by j bytes, the bytes above the eighth dropped
ShiftBytes(x, j) == [i \in 1..Int64Bytes |-> IF i <= j THEN 0 ELSE x[i - j]]

\* a * b in int64, from byte i of a on
RECURSIVE MulFrom(_, _, _)
MulFrom(a, b, i) ==
    IF i > Int64Bytes THEN ToInt64(0)
    ELSE Add64(ShiftBytes(MulByteFrom(b, a[i], 1, 0), i - 1), MulFrom(a, b, i + 1))

Mul64(a, b) == MulFrom(a, b, 1)

\* the sign bit
Negative64(x) == x[Int64Bytes] >= ByteBase \div 2

\* a < b as unsigned numbers, compared from byte i down
RECURSIVE UnsignedLessFrom(_, _, _)
UnsignedLessFrom(a, b, i) ==
    IF i = 0 THEN FALSE
    ELSE IF a[i] # b[i] THEN a[i] < b[i]
    ELSE UnsignedLessFrom(a, b, i - 1)

\* a < b in int64
Less64(a, b) ==
    IF Negative64(a) # Negative64(b) THEN Negative64(a)
    ELSE UnsignedLessFrom(a, b, Int64Bytes)

\* time.Second, in nanoseconds
Second == ToInt64(1000000000)

\* backoff := time.Duration(1<<uint(attempt-1)) * time.Second, capped at
\* 30 * time.Second
backoffDuration(attempt) ==
    LET backoff == Mul64(Shl64(ToInt64(1), attempt - 1), Second)
        cap == Mul64(ToInt64(30), Second)
    IN  IF Less64(cap, backoff) THEN cap ELSE backoff

InitBackoffCalls ==
    /\ bRetries \in 1..MaxBackoffRetries
    /\ bAttempt = 0
    /\ bDur = ToInt64(0)

notBackoff == <<poolVars, fetchVars, limVars, idVars, storeVars>>

\* an attempt of Fetch's loop failed with a retryable error: the loop body
\* calls f.backoffDuration(attempts) for attempts = 1, 2, .., maxRetries
BackoffCall ==
    /\ bRetries > 0
    /\ bAttempt < bRetries
    /\ bAttempt' = bAttempt + 1
    /\ bDur' = backoffDuration(bAttempt + 1)
    /\ UNCHANGED <<bRetries, notBackoff>>

NextBackoff == BackoffCall

InitBackoff == InitBackoffCalls /\ AllIdle("backoff")

SpecBackoff == InitBackoff /\ [][NextBackoff]_vars

(***************************************************************************)
(* Properties of backoffDuration.                                          *)
(***************************************************************************)
\* min(2^n, cap), computed without leaving the small numbers
RECURSIVE CappedPow2(_, _)
CappedPow2(n, cap) == IF n = 0 THEN Min(1, cap) ELSE Min(cap, 2 * CappedPow2(n - 1, cap))

\* C12 (as claimed): for every attempt k a configured maxRetries reaches,
\* backoffDuration(k) is min(2^(k-1), 30) seconds, it is not negative, and it
\* is not smaller than backoffDuration(k-1).
C12_BackoffMinPow2 ==
    bAttempt >= 1 =>
        /\ bDur = Mul64(ToInt64(CappedPow2(bAttempt - 1, 30)), Second)
        /\ ~Negative64(bDur)
        /\ bAttempt >= 2 => ~Less64(bDur, backoffDuration(bAttempt - 1))

(***************************************************************************)
(* The identifier of a URL. A string is a sequence of pieces of text: the  *)
(* piece "/" is the slash, every other piece is a run of characters that   *)
(* holds no slash. Both patterns begin and end with a slash, so they occur *)
(* in the string exactly where their pieces occur in the sequence.         *)
(***************************************************************************)
\* "/article/id/"
IdPattern == <<"/", "article", "/", "id", "/">>

\* "/article/doi/"
DoiPattern == <<"/", "article", "/", "doi", "/">>

\* the pieces the input URLs are made of
Parts == {<<"/">>, <<"w">>, <<"article">>, <<"id">>, <<"doi">>, IdPattern, DoiPattern}

\* the concatenations of n pieces
RECURSIVE Concats(_)
Concats(n) ==
    IF n = 0 THEN {<<>>} ELSE {p \o c : p \in Parts, c \in Concats(n - 1)}

\* the lines readURLs may hand to Process
URLs == UNION {Concats(n) : n \in 0..MaxParts}

\* s[from:], from counted from 0
SliceFrom(s, from) == SubSeq(s, from + 1, Len(s))

\* the indexes (from 0) at which substr occurs in s
Occurrences(s, substr) ==
    {i \in 0..(Len(s) - Len(substr)) : SubSeq(s, i + 1, i + Len(substr)) = substr}

\* strings.Index(s, substr): the index of the first occurrence, or -1
Index(s, substr) ==
    IF Occurrences(s, substr) = {} THEN -1
    ELSE CHOOSE i \in Occurrences(s, substr) :
             \A j \in Occurrences(s, substr) : i <= j

\* a variant that takes the first occurrence
LastIndexIsFirst(s, substr) == Index(s, substr)

\* strings.LastIndex(s, substr): the index of the last occurrence, or -1
LastIndex(s, substr) ==
    IF Occurrences(s, substr) = {} THEN -1
    ELSE CHOOSE i \in Occurrences(s, substr) :
             \A j \in Occurrences(s, substr) : j <= i

\* extractIDFromURL of package worker
extractIDFromURL(u) ==
    IF LastIndex(u, IdPattern) # -1
    THEN SliceFrom(u, LastIndex(u, IdPattern) + Len(IdPattern))
    ELSE IF LastIndex(u, DoiPattern) # -1
    THEN SliceFrom(u, LastIndex(u, DoiPattern) + Len(DoiPattern))
    ELSE u

\* strings.Split(s, "/"): the texts between the slashes
RECURSIVE Split(_)
Split(s) ==
    IF Occurrences(s, <<"/">>) = {} THEN <<s>>
    ELSE <<SubSeq(s, 1, Index(s, <<"/">>))>>
             \o Split(SliceFrom(s, Index(s, <<"/">>) + 1))

\* extractIDFromURL of package parser: the last of the texts
parserExtractIDFromURL(u) ==
    IF Len(Split(u)) > 0 THEN Split(u)[Len(Split(u))] ELSE u

InitIds ==
    /\ url \in URLs
    /\ taskMade = FALSE
    /\ taskID = <<>>
    /\ recordMade = FALSE
    /\ recordID = <<>>

notIds == <<poolVars, fetchVars, limVars, backVars, storeVars>>

\* generateTasks: task := NewTask(extractIDFromURL(url), url)
GenerateTask ==
    /\ ~taskMade
    /\ taskMade' = TRUE
    /\ taskID' = extractIDFromURL(url)
    /\ UNCHANGED <<url, recordMade, recordID, notIds>>

\* Parse: metadata.ID = extractIDFromURL(url)
ParseRecord ==
    /\ ~recordMade
    /\ recordMade' = TRUE
    /\ recordID' = parserExtractIDFromURL(url)
    /\ UNCHANGED <<url, taskMade, taskID, notIds>>

NextIds == GenerateTask \/ ParseRecord

InitIdentifiers == InitIds /\ AllIdle("ids")

SpecIds == InitIdentifiers /\ [][NextIds]_vars

(***************************************************************************)
(* Properties of the identifiers.                                          *)
(***************************************************************************)
\* C15 (as claimed): the identifier that names the persisted file of a URL
\* (PaperMetadata.ID) is the Task id the pool derives from the same URL.
C15_SameIdentifier ==
    (taskMade /\ recordMade) => recordID = taskID

\* C16 (as claimed): for a URL P + "/article/id/" + T the Task id is T, for
\* a URL P + "/article/doi/" + T it is T, and for a URL that holds neither
\* pattern it is the URL.
C16_TokenAfterPattern ==
    taskMade =>
        /\ \A i \in Occurrences(url, IdPattern) :
               taskID = SliceFrom(url, i + Len(IdPattern))
        /\ \A i \in Occurrences(url, DoiPattern) :
               taskID = SliceFrom(url, i + Len(DoiPattern))
        /\ (Occurrences(url, IdPattern) = {} /\ Occurrences(url, DoiPattern) = {})
               => taskID = url

\* the occurrence of substr in s after which substr does not begin again
IsLast(s, substr, i) ==
    /\ i \in Occurrences(s, substr)
    /\ \A j \in Occurrences(s, substr) : j <= i

\* C16 (amended): the Task id is the text after the last occurrence of
\* "/article/id/" when the URL holds that pattern; otherwise the text after
\* the last occurrence of "/article/doi/" when the URL holds that one;
\* otherwise the URL.
C16_TokenAfterLastPattern ==
    taskMade =>
        /\ \A i \in Occurrences(url, IdPattern) :
               IsLast(url, IdPattern, i) => taskID = SliceFrom(url, i + Len(IdPattern))
        /\ Occurrences(url, IdPattern) = {} =>
               \A i \in Occurrences(url, DoiPattern) :
                   IsLast(url, DoiPattern, i) =>
                       taskID = SliceFrom(url, i + Len(DoiPattern))
        /\ (Occurrences(url, IdPattern) = {} /\ Occurrences(url, DoiPattern) = {})
               => taskID = url

\* C16 witness: a URL that holds "/article/id/" twice and "/article/doi/"
\* before it, whose Task id is the word after the last "/article/id/".
C16_Witness ==
    /\ taskMade
    /\ Cardinality(Occurrences(url, IdPattern)) = 2
    /\ Occurrences(url, DoiPattern) # {}
    /\ taskID = <<"w">>

\* C17 (as claimed): extracting the identifier of an identifier gives the
\* identifier back.
C17_Idempotent ==
    taskMade => extractIDFromURL(taskID) = taskID

(***************************************************************************)
(* SaveBatch: every Result received starts a goroutine. A Result with an   *)
(* error is counted Failed; otherwise its record goes to Save, which       *)
(* validates it, takes fileLock, skips a record whose file exists, and     *)
(* else writes a temporary file and renames it. s.stats is written with    *)
(* fileLock held in Save after validation and without it elsewhere, so a   *)
(* read and a write of one ++ are two steps. The goroutines are anonymous. *)
(***************************************************************************)
\* the values of PaperMetadata.ID in the batch
RecordIDs == {"a", "b"}

\* a Result whose Error is set
ErrorResult == [kind |-> "error", id |-> "", valid |-> FALSE]

\* a Result whose Data is a record; valid is what Validate() returns for it
RecordResult(i, v) == [kind |-> "record", id |-> i, valid |-> v]

\* a Result without an error whose Data is not a *parser.PaperMetadata
OtherResult == [kind |-> "other", id |-> "", valid |-> FALSE]

\* a Result without an error whose Data is a nil *parser.PaperMetadata
NilResult == [kind |-> "nil", id |-> "", valid |-> FALSE]

BatchResults == {ErrorResult, OtherResult, NilResult} \cup {RecordResult(i, v) : i \in RecordIDs, v \in BOOLEAN}

\* filepath.Join(s.outputDir, metadata.ID+".json")
FileName(i) == <<i, ".json">>

\* tempFile := filename + ".tmp"
TempFile(filename) == filename \o <<".tmp">>

FileNames == {FileName(i) : i \in RecordIDs} \cup {TempFile(FileName(i)) : i \in RecordIDs}

\* go func(r worker.Result) {...}(result)
Spawn(r) == [pc |-> "go", r |-> r, reg |-> 0, out |-> ""]

\* the goroutine returned; out tells by which path
Returned(g, o) == [g EXCEPT !.pc = "done", !.reg = 0, !.out = o]

\* Save returned an error by the path o: the goroutine is at errors <- ...
Failing(g, o) == [g EXCEPT !.pc = "sendErr", !.reg = 0, !.out = o]

\* goroutine g takes a step to g2
Step(g, g2) == (sg (-) SetToBag({g})) (+) SetToBag({g2})

Goroutines == BagToSet(sg)

InitStore ==
    /\ \E n \in 1..MaxBatch : \E q \in [1..n -> BatchResults] :
          sg = [g \in {Spawn(q[i]) : i \in 1..n} |->
                   Cardinality({i \in 1..n : Spawn(q[i]) = g})]
    /\ existing \in SUBSET RecordIDs
    /\ disk = [f \in FileNames |->
                  IF \E i \in existing : f = FileName(i) THEN "old" ELSE ""]
    /\ fileLocked = FALSE
    /\ sstats = [Saved |-> 0, Failed |-> 0, Skipped |-> 0]
    /\ errors = 0
    /\ sbPc = "wait"
    /\ sbErr = 0

\* SaveBatch's own variables
batchVars == <<errors, sbPc, sbErr>>

notStore == <<poolVars, fetchVars, limVars, backVars, idVars>>

\* SaveBatch, r.Error != nil: s.stats.Failed++, the read
SaveBatchErrorRead(g) ==
    /\ g.pc = "go"
    /\ g.r.kind = "error"
    /\ sg' = Step(g, [g EXCEPT !.pc = "failedW", !.reg = sstats.Failed])
    /\ UNCHANGED <<disk, existing, fileLocked, sstats, batchVars, notStore>>

\* SaveBatch, r.Error != nil: s.stats.Failed++, the write; return
SaveBatchErrorWrite(g) ==
    /\ g.pc = "failedW"
    /\ sstats' = [sstats EXCEPT !.Failed = g.reg + 1]
    /\ sg' = Step(g, Returned(g, "error"))
    /\ UNCHANGED <<disk, existing, fileLocked, batchVars, notStore>>

\* SaveBatch, the type assertion fails: errors <- err, which waits while
\* the channel is full
SaveBatchOtherSend(g) ==
    /\ g.pc = "go"
    /\ g.r.kind = "other"
    /\ errors < ErrorsCap
    /\ errors' = errors + 1
    /\ sg' = Step(g, [g EXCEPT !.pc = "otherR"])
    /\ UNCHANGED <<disk, existing, fileLocked, sstats, sbPc, sbErr, notStore>>

\* SaveBatch, the type assertion fails, after the send: s.stats.Failed++,
\* the read
SaveBatchOtherRead(g) ==
    /\ g.pc = "otherR"
    /\ sg' = Step(g, [g EXCEPT !.pc = "otherW", !.reg = sstats.Failed])
    /\ UNCHANGED <<disk, existing, fileLocked, sstats, batchVars, notStore>>

\* SaveBatch, the type assertion fails: s.stats.Failed++, the write; return
SaveBatchOtherWrite(g) ==
    /\ g.pc = "otherW"
    /\ sstats' = [sstats EXCEPT !.Failed = g.reg + 1]
    /\ sg' = Step(g, Returned(g, "other"))
    /\ UNCHANGED <<disk, existing, fileLocked, batchVars, notStore>>

\* Save, metadata == nil: return the error (no counter is touched)
SaveNil(g) ==
    /\ g.pc = "go"
    /\ g.r.kind = "nil"
    /\ sg' = Step(g, Failing(g, "nil"))
    /\ UNCHANGED <<disk, existing, fileLocked, sstats, batchVars, notStore>>

\* Save, !metadata.Validate(): s.stats.Skipped++, the read
SaveInvalidRead(g) ==
    /\ g.pc = "go"
    /\ g.r.kind = "record"
    /\ ~g.r.valid
    /\ sg' = Step(g, [g EXCEPT !.pc = "invalidW", !.reg = sstats.Skipped])
    /\ UNCHANGED <<disk, existing, fileLocked, sstats, batchVars, notStore>>

\* Save, !metadata.Validate(): s.stats.Skipped++, the write; return the error
SaveInvalidWrite(g) ==
    /\ g.pc = "invalidW"
    /\ sstats' = [sstats EXCEPT !.Skipped = g.reg + 1]
    /\ sg' = Step(g, Failing(g, "invalid"))
    /\ UNCHANGED <<disk, existing, fileLocked, batchVars, notStore>>

\* Save, the record is valid: os.MkdirAll fails; return the error (no
\* counter is touched)
SaveMkdirFails(g) ==
    /\ g.pc = "go"
    /\ g.r.kind = "record"
    /\ g.r.valid
    /\ sg' = Step(g, Failing(g, "mkdirFailed"))
    /\ UNCHANGED <<disk, existing, fileLocked, sstats, batchVars, notStore>>

\* a variant that goes on without waiting for the lock
SaveNoLock(g) ==
    /\ g.pc = "go"
    /\ g.r.kind = "record"
    /\ g.r.valid
    /\ fileLocked' = TRUE
    /\ sg' = Step(g, [g EXCEPT !.pc = "locked"])
    /\ UNCHANGED <<disk, existing, sstats, batchVars, notStore>>

\* Save, the record is valid: MkdirAll, the file name, s.fileLock.Lock()
SaveLock(g) ==
    /\ g.pc = "go"
    /\ g.r.kind = "record"
    /\ g.r.valid
    /\ ~fileLocked
    /\ fileLocked' = TRUE
    /\ sg' = Step(g, [g EXCEPT !.pc = "locked"])
    /\ UNCHANGED <<disk, existing, sstats, batchVars, notStore>>

\* Save, os.Stat(filename) finds the file: s.stats.Skipped++, the read
SaveExistsRead(g) ==
    /\ g.pc = "locked"
    /\ disk[FileName(g.r.id)] # ""
    /\ sg' = Step(g, [g EXCEPT !.pc = "existsW", !.reg = sstats.Skipped])
    /\ UNCHANGED <<disk, existing, fileLocked, sstats, batchVars, notStore>>

\* Save, the file exists: s.stats.Skipped++, the write; return nil (the
\* deferred Unlock runs)
SaveExistsWrite(g) ==
    /\ g.pc = "existsW"
    /\ sstats' = [sstats EXCEPT !.Skipped = g.reg + 1]
    /\ fileLocked' = FALSE
    /\ sg' = Step(g, Returned(g, "skipped"))
    /\ UNCHANGED <<disk, existing, batchVars, notStore>>

\* Save, os.Stat(filename) finds nothing: writeJSON(tempFile, metadata).
\* os.Create fails (no file), Encode fails (a partial file), or the file is
\* written whole.
SaveWriteJSON(g) ==
    /\ g.pc = "locked"
    /\ disk[FileName(g.r.id)] = ""
    /\ \E o \in {"createErr", "encodeErr", "written"} :
          /\ disk' = IF o = "createErr" THEN disk
                     ELSE [disk EXCEPT ![TempFile(FileName(g.r.id))] =
                              IF o = "written" THEN "new" ELSE "partial"]
          /\ sg' = Step(g, [g EXCEPT !.pc = IF o = "written" THEN "rename"
                                                               ELSE "remove"])
    /\ UNCHANGED <<existing, fileLocked, sstats, batchVars, notStore>>

\* Save, os.Rename(tempFile, filename) succeeds: s.stats.Saved++ (Saved is
\* written here only, with the lock held); return nil
SaveRename(g) ==
    /\ g.pc = "rename"
    /\ disk' = [disk EXCEPT ![FileName(g.r.id)] = disk[TempFile(FileName(g.r.id))],
                            ![TempFile(FileName(g.r.id))] = ""]
    /\ sstats' = [sstats EXCEPT !.Saved = @ + 1]
    /\ fileLocked' = FALSE
    /\ sg' = Step(g, Returned(g, "saved"))
    /\ UNCHANGED <<existing, batchVars, notStore>>

\* Save, os.Rename(tempFile, filename) fails
SaveRenameFails(g) ==
    /\ g.pc = "rename"
    /\ sg' = Step(g, [g EXCEPT !.pc = "remove"])
    /\ UNCHANGED <<disk, existing, fileLocked, sstats, batchVars, notStore>>

\* a variant that leaves the temporary file behind
SaveKeepsTemp(g) ==
    /\ g.pc = "remove"
    /\ sg' = Step(g, [g EXCEPT !.pc = "saveFailedW", !.reg = sstats.Failed])
    /\ UNCHANGED <<disk, existing, fileLocked, sstats, batchVars, notStore>>

\* Save, after either failure: os.Remove(tempFile), which removes the file
\* this call created if there is one; s.stats.Failed++, the read
SaveRemove(g) ==
    /\ g.pc = "remove"
    /\ disk' = [disk EXCEPT ![TempFile(FileName(g.r.id))] = ""]
    /\ sg' = Step(g, [g EXCEPT !.pc = "saveFailedW", !.reg = sstats.Failed])
    /\ UNCHANGED <<existing, fileLocked, sstats, batchVars, notStore>>

\* Save, after either failure: s.stats.Failed++, the write; return the error
SaveFailedWrite(g) ==
    /\ g.pc = "saveFailedW"
    /\ sstats' = [sstats EXCEPT !.Failed = g.reg + 1]
    /\ fileLocked' = FALSE
    /\ sg' = Step(g, Failing(g, "writeFailed"))
    /\ UNCHANGED <<disk, existing, batchVars, notStore>>

\* SaveBatch, Save returned an error: errors <- fmt.Errorf(...), which waits
\* while the channel is full; return
SaveBatchSendError(g) ==
    /\ g.pc = "sendErr"
    /\ errors < ErrorsCap
    /\ errors' = errors + 1
    /\ sg' = Step(g, [g EXCEPT !.pc = "done"])
    /\ UNCHANGED <<disk, existing, fileLocked, sstats, sbPc, sbErr, notStore>>

\* SaveBatch, after the loop over the closed result channel: wg.Wait()
\* returns when every goroutine is done; close(errors), the errors are
\* collected and counted, and SaveBatch returns
SaveBatchReturn ==
    /\ sbPc = "wait"
    /\ \A g \in Goroutines : g.pc = "done"
    /\ sbPc' = "returned"
    /\ sbErr' = errors
    /\ errors' = 0
    /\ UNCHANGED <<sg, disk, existing, fileLocked, sstats, notStore>>

\* the goroutine of a Result with an error
SaveBatchError == \E g \in Goroutines :
    SaveBatchErrorRead(g) \/ SaveBatchErrorWrite(g)

\* the goroutine of a Result whose Data has another type
SaveBatchOther == \E g \in Goroutines :
    SaveBatchOtherSend(g) \/ SaveBatchOtherRead(g) \/ SaveBatchOtherWrite(g)

\* the goroutine of a Result whose Save returned an error
SaveBatchSends == \E g \in Goroutines : SaveBatchSendError(g)

\* the goroutine of a Result whose Data is a nil record
SaveNilRecord == \E g \in Goroutines : SaveNil(g)

\* the goroutine of a Result with a record that Validate() rejects
SaveInvalid == \E g \in Goroutines :
    SaveInvalidRead(g) \/ SaveInvalidWrite(g)

SaveLocks == \E g \in Goroutines :
    SaveMkdirFails(g) \/ SaveLock(g)

SaveExists == \E g \in Goroutines :
    SaveExistsRead(g) \/ SaveExistsWrite(g)

SaveWrites == \E g \in Goroutines : SaveWriteJSON(g)

SaveRenames == \E g \in Goroutines :
    SaveRename(g) \/ SaveRenameFails(g)

SaveFails == \E g \in Goroutines :
    SaveRemove(g) \/ SaveFailedWrite(g)

NextStore ==
    \/ SaveBatchError
    \/ SaveBatchOther
    \/ SaveNilRecord
    \/ SaveInvalid
    \/ SaveLocks
    \/ SaveExists
    \/ SaveWrites
    \/ SaveRenames
    \/ SaveFails
    \/ SaveBatchSends
    \/ SaveBatchReturn

InitStorage == InitStore /\ AllIdle("store")

SpecStore == InitStorage /\ [][NextStore]_vars

\* the storage under a scheduler that runs a goroutine that can take a step
SpecStoreLive == InitStorage /\ [][NextStore]_vars /\ WF_vars(NextStore)

(***************************************************************************)
(* Properties of the storage.                                              *)
(***************************************************************************)
\* wg.Wait() returned: every goroutine of the batch is done
StoreDone == \A g \in Goroutines : g.pc = "done"

\* the number of goroutines of the batch that returned by one of the paths outs
Returns(outs) ==
    BagCardinality([g \in {h \in Goroutines : h.out \in outs} |-> sg[g]])

\* the number of Results of the batch of one of the kinds
ResultsOf(kinds) ==
    BagCardinality([g \in {h \in Goroutines : h.r.kind \in kinds} |-> sg[g]])

\* the output directory as it was before the batch
DiskBefore ==
    [f \in FileNames |-> IF \E i \in existing : f = FileName(i) THEN "old" ELSE ""]

\* C18: a batch of Results that all carry an error creates and modifies no
\* file, and once all its goroutines returned Failed is the number of
\* Results while Saved and Skipped are 0.
C18_ErrorResultsFailed ==
    ResultsOf({"error"}) = BagCardinality(sg) =>
        /\ disk = DiskBefore
        /\ StoreDone =>
              /\ sstats.Failed = BagCardinality(sg)
              /\ sstats.Saved = 0
              /\ sstats.Skipped = 0

\* the number of Results of the batch with record ID i that Save wrote
SavedOf(i) ==
    BagCardinality([g \in {h \in Goroutines : h.out = "saved" /\ h.r.id = i}
                       |-> sg[g]])

\* no call of the batch met a failure of the file system
NoIOFailure == Returns({"mkdirFailed", "writeFailed"}) = 0

\* A file that was there before the batch keeps its content and no Result is
\* saved over it; at most one Result per record ID is saved; and when the
\* batch is done and the file system did not fail, a record ID that had no
\* file and has a valid Result was saved.
SingleWriter ==
    /\ \A i \in existing : disk[FileName(i)] = "old" /\ SavedOf(i) = 0
    /\ \A i \in RecordIDs : SavedOf(i) <= 1
    /\ (StoreDone /\ NoIOFailure) =>
          \A i \in RecordIDs \ existing :
              (\E g \in Goroutines : g.r = RecordResult(i, TRUE)) =>
                  SavedOf(i) = 1 /\ disk[FileName(i)] = "new"

\* no Result of the batch carries a record that Validate() rejects (the
\* Skipped++ of that path is outside fileLock)
NoInvalid == \A g \in Goroutines : g.r.kind = "record" => g.r.valid

Writing(i) ==
    \E g \in Goroutines : g.r.id = i /\ g.pc \in {"rename", "remove"}

InvalidRecords ==
    BagCardinality([g \in {h \in Goroutines : h.r.kind = "record" /\ ~h.r.valid}
                       |-> sg[g]])

\* C21 (as claimed): a batch of Results whose records all fail validation
\* writes no file, and once all its goroutines returned Skipped is the number
\* of records while Failed and Saved are 0.
C21_InvalidRecordsSkipped ==
    InvalidRecords = BagCardinality(sg) =>
        /\ disk = DiskBefore
        /\ StoreDone =>
              /\ sstats.Skipped = BagCardinality(sg)
              /\ sstats.Failed = 0
              /\ sstats.Saved = 0

\* C32 (as claimed): once every goroutine of the batch has returned,
\* Saved + Failed + Skipped is the number of Results SaveBatch received.
C32_CountersAccountForAll ==
    StoreDone =>
        sstats.Saved + sstats.Failed + sstats.Skipped = BagCardinality(sg)

\* the goroutines of the batch that send to the errors channel: the Result has
\* no error and its Data is no record, or Save returns an error
SendsError(g) ==
    \/ g.r.kind \in {"other", "nil"}
    \/ g.r.kind = "record" /\ ~g.r.valid
    \/ g.out \in {"mkdirFailed", "writeFailed"}

\* the number of goroutines of the batch that send to the errors channel
Senders ==
    BagCardinality([g \in {h \in Goroutines : SendsError(h)} |-> sg[g]])

\* C33 (as claimed): SaveBatch returns, whatever the number of Results whose
\* save fails, and reports that number.
C33_SaveBatchReturns == <>(sbPc = "returned" /\ sbErr = Senders)

\* the number of Tasks the workers popped so far
PoppedCount == Cardinality({t \in Tasks : popped[t] >= 1})

\* the queue holds, in the order of the URL list, the Tasks pushed and not yet
\* popped, and never more than its capacity
QueueInOrder ==
    /\ Len(taskQueue) <= queueCap
    /\ taskQueue = [j \in 1..Len(taskQueue) |-> PoppedCount + j]
    /\ genIdx = PoppedCount + Len(taskQueue) + 1

\* a pop takes the Task of the next URL of the list
PopInOrder ==
    \A t \in Tasks : popped'[t] # popped[t] => t = PoppedCount + 1 /\ popped'[t] = 1

\* the generator pushes nothing while the queue is full
PushBlocks == Len(taskQueue) = queueCap => genIdx' = genIdx /\ Len(taskQueue') <= Len(taskQueue)

\* C31: the i-th Task popped, in global pop order, is the Task of the i-th
\* input URL; the queue holds the pushed Tasks in input order and never more
\* than its capacity; the generator does not push while the queue is full.
C31_QueueFIFO == []QueueInOrder /\ [][PopInOrder /\ PushBlocks]_vars

\* C31 witness: the queue holds two Tasks and is full, and the generator has
\* a URL left to push.
C31_Witness ==
    /\ Len(taskQueue) = queueCap
    /\ Len(taskQueue) >= 2
    /\ genPc = "loop"
    /\ genIdx <= total

\* the goroutines Process started have all terminated
ProcessGoroutinesDone ==
    /\ genPc = "done"
    /\ AllWorkersDone
    /\ monPc \in {"idle", "done"}

\* C34 (as claimed): after Stop has returned, no goroutine started by
\* Process is still running: the generator, every worker and, in verbose
\* mode, the statistics monitor have terminated.
C34_NoGoroutineAfterStop == stopPc = "returned" => ProcessGoroutinesDone

=============================================================================
